---------------------------- MODULE Spec2Model ----------------------------
(***************************************************************************)
(* Model of platform-top.h, the U-Boot configuration fragment of the KRM   *)
(* PetaLinux project.                                                      *)
(*                                                                         *)
(*   1  #include <configs/xilinx_zynqmp.h>                                 *)
(*   3  #define CONFIG_BOOTCOMMAND "run bootcmd_pxe"                       *)
(*   5  #undef BOOT_TARGET_DEVICES                                         *)
(*   6  #define BOOT_TARGET_DEVICES(func) \                                *)
(*   7          func(PXE, pxe, na) \                                       *)
(*   8          func(MMC, mmc, 1) \                                        *)
(*   9          func(MMC, mmc, 0) \                                        *)
(*  10          func(USB, usb, 0) \                                        *)
(*  11          func(DHCP, dhcp, na)                                       *)
(*                                                                         *)
(* The state is the preprocessor's macro table while the header is         *)
(* processed directive by directive, then the expansions of                *)
(* BOOT_TARGET_DEVICES(func) made by the text that includes the header,    *)
(* then the boot attempts of the firmware built from it.                   *)
(***************************************************************************)
EXTENDS Naturals, Sequences, FiniteSets, TLC

VARIABLES
    pc,            \* the directive the preprocessor is at: "L1","L3","L5","L6","done","failed"
    defs,          \* the macro table: symbol -> definition
    afterInclude,  \* the macro table as the #include of line 1 left it
    redefined,     \* symbols a #define found already defined
    exp,           \* the expansion of BOOT_TARGET_DEVICES(func) in progress
    log,           \* the completed expansions, in order: generator and output
    boot,          \* the boot attempt in progress
    nBoots         \* finished boot attempts

vars == <<pc, defs, afterInclude, redefined, exp, log, boot, nBoots>>

(***************************************************************************)
(* Bounds of the model.                                                    *)
(***************************************************************************)
MaxExpansions == 3
MaxBoots == 2

(***************************************************************************)
(* Macro definitions.  An object-like macro has a replacement text, a      *)
(* function-like one a body, here the sequence of func(...) invocations.   *)
(***************************************************************************)
Undefined == [kind |-> "undef", text |-> "", body |-> <<>>]

ObjectMacro(t) == [kind |-> "object", text |-> t, body |-> <<>>]

FunctionMacro(b) == [kind |-> "function", text |-> "", body |-> b]

Entry(c, t, q) == [class |-> c, transport |-> t, qualifier |-> q]

\* The two symbols of the fragment, and symbols only the vendor header sets.
OtherSymbols == {"VENDOR_SYM_A", "VENDOR_SYM_B"}

Symbols == {"CONFIG_BOOTCOMMAND", "BOOT_TARGET_DEVICES"} \cup OtherSymbols

\* line 3: the replacement text of CONFIG_BOOTCOMMAND
BootCommandTextDistro == "run distro_bootcmd"

BootCommandText == "run bootcmd_pxe"

\* lines 7-11: the body of BOOT_TARGET_DEVICES(func)
BootTargetDevicesBodyMmcSwapped ==
    << Entry("PXE", "pxe", "na"),
       Entry("MMC", "mmc", "0"),
       Entry("MMC", "mmc", "1"),
       Entry("USB", "usb", "0"),
       Entry("DHCP", "dhcp", "na") >>

BootTargetDevicesBodyNoPxe ==
    << Entry("MMC", "mmc", "1"),
       Entry("MMC", "mmc", "0"),
       Entry("USB", "usb", "0"),
       Entry("DHCP", "dhcp", "na") >>

BootTargetDevicesBody ==
    << Entry("PXE", "pxe", "na"),
       Entry("MMC", "mmc", "1"),
       Entry("MMC", "mmc", "0"),
       Entry("USB", "usb", "0"),
       Entry("DHCP", "dhcp", "na") >>

(***************************************************************************)
(* Line 1.  What configs/xilinx_zynqmp.h leaves behind is an input: each   *)
(* symbol is left undefined, defined with another value, or (the boot      *)
(* command) defined with the very text of line 3.                          *)
(***************************************************************************)
VendorBody ==
    << Entry("MMC", "mmc", "0"),
       Entry("MMC", "mmc", "1"),
       Entry("USB", "usb", "0"),
       Entry("PXE", "pxe", "na"),
       Entry("DHCP", "dhcp", "na") >>

VendorTables ==
    { t \in [Symbols -> {Undefined, ObjectMacro("vendor"),
                         ObjectMacro("run distro_bootcmd"),
                         ObjectMacro("run bootcmd_pxe"),
                         FunctionMacro(VendorBody)}] :
        /\ t["CONFIG_BOOTCOMMAND"] \in {Undefined, ObjectMacro("run distro_bootcmd"),
                                        ObjectMacro("run bootcmd_pxe")}
        /\ t["BOOT_TARGET_DEVICES"] \in {Undefined, FunctionMacro(VendorBody)}
        /\ \A s \in OtherSymbols : t[s] \in {Undefined, ObjectMacro("vendor")} }

Include ==
    /\ pc = "L1"
    /\ \E t \in VendorTables :
         /\ defs' = t
         /\ afterInclude' = t
    /\ pc' = "L3"
    /\ UNCHANGED <<redefined, exp, log, boot, nBoots>>

(***************************************************************************)
(* #define.  A symbol that is undefined, or defined with the same          *)
(* replacement, takes the definition.  One defined differently is a        *)
(* constraint violation: the compiler diagnoses it and either goes on with *)
(* the new definition (a warning) or rejects the translation unit.         *)
(***************************************************************************)
DefineOutcomesKeepFirst(cur, new) ==
    IF cur.kind = "undef" \/ cur = new
    THEN { [accepted |-> TRUE, def |-> new] }
    ELSE { [accepted |-> TRUE, def |-> cur], [accepted |-> FALSE, def |-> cur] }

DefineOutcomes(cur, new) ==
    IF cur.kind = "undef" \/ cur = new
    THEN { [accepted |-> TRUE, def |-> new] }
    ELSE { [accepted |-> TRUE, def |-> new], [accepted |-> FALSE, def |-> cur] }

DefineDirective(sym, new, next) ==
    \E o \in DefineOutcomes(defs[sym], new) :
        /\ defs' = [defs EXCEPT ![sym] = o.def]
        /\ redefined' = IF defs[sym].kind = "undef" THEN redefined
                        ELSE redefined \cup {sym}
        /\ pc' = IF o.accepted THEN next ELSE "failed"

\* #undef: the symbol, and no other, loses its definition.
UndefAll(table, sym) == [s \in Symbols |-> Undefined]

Undef(table, sym) == [table EXCEPT ![sym] = Undefined]

\* line 3
DefineBootCommand ==
    /\ pc = "L3"
    /\ DefineDirective("CONFIG_BOOTCOMMAND", ObjectMacro(BootCommandText), "L5")
    /\ UNCHANGED <<afterInclude, exp, log, boot, nBoots>>

\* line 5
UndefBootTargetDevices ==
    /\ pc = "L5"
    /\ defs' = Undef(defs, "BOOT_TARGET_DEVICES")
    /\ pc' = "L6"
    /\ UNCHANGED <<afterInclude, redefined, exp, log, boot, nBoots>>

\* lines 6-11
DefineBootTargetDevices ==
    /\ pc = "L6"
    /\ DefineDirective("BOOT_TARGET_DEVICES", FunctionMacro(BootTargetDevicesBody), "done")
    /\ UNCHANGED <<afterInclude, exp, log, boot, nBoots>>


(***************************************************************************)
(* Expansion of BOOT_TARGET_DEVICES(func).  The caller supplies func, a    *)
(* generator taking (class, transport, qualifier); the preprocessor        *)
(* replaces the invocation by the body, one func(...) after the other in   *)
(* the order of lines 7-11, and each func(...) by the generator's text.    *)
(***************************************************************************)
Generators == {"try", "name", "class"}

\* "try":   try <transport><qualifier>
\* "name":  <transport><qualifier>, the qualifier left out when it is na
\* "class": <class>
Apply(g, e) ==
    CASE g = "try"   -> "try " \o e.transport \o e.qualifier
      [] g = "name"  -> e.transport \o (IF e.qualifier = "na" THEN "" ELSE e.qualifier)
      [] g = "class" -> e.class

\* The whole expansion at once, for a reader of the macro that takes no steps.
Expand(g, body) == [i \in 1..Len(body) |-> Apply(g, body[i])]

Idle == [phase |-> "idle", gen |-> "none", i |-> 0, out |-> <<>>, calls |-> <<>>]

\* Expansion is the build's and a boot attempt the device's: neither starts while
\* the other is under way.
ExpandStart ==
    /\ pc = "done"
    /\ exp.phase # "running"
    /\ boot.phase # "running"
    /\ Len(log) < MaxExpansions
    /\ \E g \in Generators :
         exp' = [phase |-> "running", gen |-> g, i |-> 1, out |-> <<>>, calls |-> <<>>]
    /\ UNCHANGED <<pc, defs, afterInclude, redefined, log, boot, nBoots>>

\* A bug the expansion does not have: each invocation uses up one entry of the list.
ExpandStepConsuming ==
    /\ exp.phase = "running"
    /\ exp.i <= Len(defs["BOOT_TARGET_DEVICES"].body)
    /\ LET body == defs["BOOT_TARGET_DEVICES"].body
           e == body[exp.i]
       IN  /\ exp' = [exp EXCEPT !.i = exp.i + 1,
                                 !.out = Append(exp.out, Apply(exp.gen, e)),
                                 !.calls = Append(exp.calls, e)]
           /\ defs' = [defs EXCEPT !["BOOT_TARGET_DEVICES"] =
                          FunctionMacro(SubSeq(body, 1, Len(body) - 1))]
    /\ UNCHANGED <<pc, afterInclude, redefined, log, boot, nBoots>>

\* A bug the expansion does not have: the fragments come out last entry first.
ExpandStepReversed ==
    /\ exp.phase = "running"
    /\ exp.i <= Len(defs["BOOT_TARGET_DEVICES"].body)
    /\ LET e == defs["BOOT_TARGET_DEVICES"].body[exp.i]
       IN  exp' = [exp EXCEPT !.i = exp.i + 1,
                              !.out = <<Apply(exp.gen, e)>> \o exp.out,
                              !.calls = Append(exp.calls, e)]
    /\ UNCHANGED <<pc, defs, afterInclude, redefined, log, boot, nBoots>>

\* One func(...) of the body: the generator is invoked on the next entry and
\* its fragment is appended to the output.
ExpandStep ==
    /\ exp.phase = "running"
    /\ exp.i <= Len(defs["BOOT_TARGET_DEVICES"].body)
    /\ LET e == defs["BOOT_TARGET_DEVICES"].body[exp.i]
       IN  exp' = [exp EXCEPT !.i = exp.i + 1,
                              !.out = Append(exp.out, Apply(exp.gen, e)),
                              !.calls = Append(exp.calls, e)]
    /\ UNCHANGED <<pc, defs, afterInclude, redefined, log, boot, nBoots>>

\* The end of the body, line 11.
ExpandFinish ==
    /\ exp.phase = "running"
    /\ exp.i > Len(defs["BOOT_TARGET_DEVICES"].body)
    /\ exp' = [exp EXCEPT !.phase = "complete"]
    /\ log' = Append(log, [gen |-> exp.gen, out |-> exp.out])
    /\ UNCHANGED <<pc, defs, afterInclude, redefined, boot, nBoots>>

(***************************************************************************)
(* The boot engine that consumes the two symbols.  It is U-Boot's, not     *)
(* this fragment's: it is modelled from the description of it.  A boot     *)
(* attempt runs a command: the default one, CONFIG_BOOTCOMMAND, or one     *)
(* typed at the console.  "run <script>" runs a script: bootcmd_<target>   *)
(* attempts the one target, distro_bootcmd walks the target list in order  *)
(* and stops at the first source that boots.                               *)
(***************************************************************************)
ConsoleCommands == {"run distro_bootcmd"}

HasPrefix(s, p) == Len(s) >= Len(p) /\ SubSeq(s, 1, Len(p)) = p

DropPrefix(s, p) == SubSeq(s, Len(p) + 1, Len(s))

\* The script a command runs, "" when it runs none.
ScriptOf(cmd) == IF HasPrefix(cmd, "run ") THEN DropPrefix(cmd, "run ") ELSE ""

\* The target a per-entry script boots from, "" when it is no per-entry script.
TargetOf(script) ==
    IF HasPrefix(script, "bootcmd_") THEN DropPrefix(script, "bootcmd_") ELSE ""

Range(seq) == { seq[i] : i \in 1..Len(seq) }

\* The targets a command attempts, in order, given the generated target names.
Targets(cmd, names) ==
    LET script == ScriptOf(cmd)
    IN  IF script = "distro_bootcmd" THEN names
        ELSE IF TargetOf(script) \in Range(names) THEN << TargetOf(script) >>
        ELSE << >>

Off == [phase |-> "off", default |-> TRUE, cmd |-> "", queue |-> <<>>,
        tried |-> <<>>, booted |-> "", seen |-> <<>>]

BootStartReversed ==
    /\ pc = "done"
    /\ boot.phase # "running"
    /\ exp.phase # "running"
    /\ nBoots < MaxBoots
    /\ \E cmd \in {defs["CONFIG_BOOTCOMMAND"].text} \cup ConsoleCommands :
         LET names == Expand("name", defs["BOOT_TARGET_DEVICES"].body)
             q == Targets(cmd, names)
         IN  boot' = [phase |-> "running",
                      default |-> (cmd = defs["CONFIG_BOOTCOMMAND"].text),
                      cmd |-> cmd,
                      queue |-> [i \in 1..Len(q) |-> q[Len(q) + 1 - i]],
                      tried |-> <<>>,
                      booted |-> "",
                      seen |-> Append(boot.seen,
                                  [command |-> defs["CONFIG_BOOTCOMMAND"],
                                   list |-> defs["BOOT_TARGET_DEVICES"],
                                   after |-> boot.phase])]
    /\ nBoots' = nBoots + 1
    /\ UNCHANGED <<pc, defs, afterInclude, redefined, exp, log>>

\* Power on or reset: the engine reads the default command and the list.
BootStart ==
    /\ pc = "done"
    /\ boot.phase # "running"
    /\ exp.phase # "running"
    /\ nBoots < MaxBoots
    /\ \E cmd \in {defs["CONFIG_BOOTCOMMAND"].text} \cup ConsoleCommands :
         LET names == Expand("name", defs["BOOT_TARGET_DEVICES"].body)
         IN  boot' = [phase |-> "running",
                      default |-> (cmd = defs["CONFIG_BOOTCOMMAND"].text),
                      cmd |-> cmd,
                      queue |-> Targets(cmd, names),
                      tried |-> <<>>,
                      booted |-> "",
                      seen |-> Append(boot.seen,
                                  [command |-> defs["CONFIG_BOOTCOMMAND"],
                                   list |-> defs["BOOT_TARGET_DEVICES"],
                                   after |-> boot.phase])]
    /\ nBoots' = nBoots + 1
    /\ UNCHANGED <<pc, defs, afterInclude, redefined, exp, log>>

\* A bug the engine does not have: a source that failed is struck off the list.
BootTryStrikesOff ==
    /\ boot.phase = "running"
    /\ boot.queue # << >>
    /\ \E ok \in BOOLEAN :
         /\ boot' = [boot EXCEPT
                        !.tried = Append(boot.tried, [target |-> Head(boot.queue), ok |-> ok]),
                        !.queue = Tail(boot.queue),
                        !.phase = IF ok THEN "booted" ELSE "running",
                        !.booted = IF ok THEN Head(boot.queue) ELSE ""]
         /\ defs' = IF ok THEN defs
                    ELSE [defs EXCEPT !["BOOT_TARGET_DEVICES"] =
                            FunctionMacro(SelectSeq(defs["BOOT_TARGET_DEVICES"].body,
                                LAMBDA e : Apply("name", e) # Head(boot.queue)))]
    /\ UNCHANGED <<pc, afterInclude, redefined, exp, log, nBoots>>

\* The next target of the command is attempted; it boots or it fails.
BootTry ==
    /\ boot.phase = "running"
    /\ boot.queue # << >>
    /\ \E ok \in BOOLEAN :
         boot' = [boot EXCEPT
                     !.tried = Append(boot.tried, [target |-> Head(boot.queue), ok |-> ok]),
                     !.queue = Tail(boot.queue),
                     !.phase = IF ok THEN "booted" ELSE "running",
                     !.booted = IF ok THEN Head(boot.queue) ELSE ""]
    /\ UNCHANGED <<pc, defs, afterInclude, redefined, exp, log, nBoots>>

\* Nothing is left to attempt: the attempt ends without a boot.
BootGiveUp ==
    /\ boot.phase = "running"
    /\ boot.queue = << >>
    /\ boot' = [boot EXCEPT !.phase = "failed"]
    /\ UNCHANGED <<pc, defs, afterInclude, redefined, exp, log, nBoots>>

(***************************************************************************)
(* The specification.                                                      *)
(***************************************************************************)
Init ==
    /\ pc = "L1"
    /\ defs = [s \in Symbols |-> Undefined]
    /\ afterInclude = [s \in Symbols |-> Undefined]
    /\ redefined = {}
    /\ exp = Idle
    /\ log = << >>
    /\ boot = Off
    /\ nBoots = 0

Next ==
    \/ Include
    \/ DefineBootCommand
    \/ UndefBootTargetDevices
    \/ DefineBootTargetDevices
    \/ ExpandStart
    \/ ExpandStep
    \/ ExpandFinish
    \/ BootStart
    \/ BootTry
    \/ BootGiveUp

Spec == Init /\ [][Next]_vars

(***************************************************************************)
(* The properties.  What the specification promises is written out here    *)
(* in full, apart from the definitions above.                              *)
(***************************************************************************)
PriorityList ==
    << [class |-> "PXE",  transport |-> "pxe",  qualifier |-> "na"],
       [class |-> "MMC",  transport |-> "mmc",  qualifier |-> "1"],
       [class |-> "MMC",  transport |-> "mmc",  qualifier |-> "0"],
       [class |-> "USB",  transport |-> "usb",  qualifier |-> "0"],
       [class |-> "DHCP", transport |-> "dhcp", qualifier |-> "na"] >>

PriorityTargets == << "pxe", "mmc1", "mmc0", "usb0", "dhcp" >>

\* C1: once the header is processed, BOOT_TARGET_DEVICES holds exactly the five
\* entries (PXE, pxe, na), (MMC, mmc, 1), (MMC, mmc, 0), (USB, usb, 0),
\* (DHCP, dhcp, na) in this order, whatever the vendor header defined before,
\* and every completed expansion of it has five fragments.
C1_FiveEntriesInFixedOrder ==
    pc = "done" =>
        /\ defs["BOOT_TARGET_DEVICES"].kind = "function"
        /\ Len(defs["BOOT_TARGET_DEVICES"].body) = 5
        /\ defs["BOOT_TARGET_DEVICES"].body = PriorityList
        /\ \A k \in 1..Len(log) : Len(log[k].out) = 5

\* A build whose vendor header had its own, differently ordered list, and an
\* expansion of the list made after the header.
C1_Witness ==
    /\ pc = "done"
    /\ afterInclude["BOOT_TARGET_DEVICES"] = FunctionMacro(VendorBody)
    /\ Len(log) >= 1

\* C2: a completed expansion with generator f has invoked f once per entry, in
\* priority order, and its i-th fragment is f of the i-th entry; with
\* f = "try <transport><qualifier>" the output is try pxena, try mmc1, try mmc0,
\* try usb0, try dhcpna.
C2_ExpansionMapsGeneratorInOrder ==
    exp.phase = "complete" =>
        /\ exp.calls = PriorityList
        /\ Len(exp.out) = Len(PriorityList)
        /\ \A i \in 1..Len(PriorityList) : exp.out[i] = Apply(exp.gen, PriorityList[i])
        /\ exp.gen = "try" =>
             exp.out = << "try pxena", "try mmc1", "try mmc0", "try usb0", "try dhcpna" >>
        /\ exp.gen = "name" => exp.out = PriorityTargets
        /\ exp.gen = "class" => exp.out = << "PXE", "MMC", "MMC", "USB", "DHCP" >>

\* The expansion with the "try" generator has run to its end.
C2_Witness ==
    /\ exp.phase = "complete"
    /\ exp.gen = "try"
    /\ Len(exp.out) = 5

\* C3: once the header is processed, CONFIG_BOOTCOMMAND is an object-like macro
\* whose replacement is the one string "run bootcmd_pxe", the command of the PXE
\* boot, whatever the vendor header defined before.
C3_BootCommandIsPxeLiteral ==
    pc = "done" =>
        /\ defs["CONFIG_BOOTCOMMAND"].kind = "object"
        /\ defs["CONFIG_BOOTCOMMAND"].text = "run bootcmd_pxe"

\* A build whose vendor header had defined the boot command differently.
C3_Witness ==
    /\ pc = "done"
    /\ afterInclude["CONFIG_BOOTCOMMAND"] = ObjectMacro("run distro_bootcmd")

\* C4: when a boot attempt has booted, the source booted from is the k-th entry
\* of the priority list for some k, the attempts made are exactly those of
\* entries 1..k in order, all before the k-th failed, and no later entry was
\* attempted.
C4_FirstSuccessfulSourceWins ==
    boot.phase = "booted" =>
        LET n == Len(boot.tried)
        IN  /\ n \in 1..Len(PriorityTargets)
            /\ boot.booted = PriorityTargets[n]
            /\ boot.tried[n] = [target |-> PriorityTargets[n], ok |-> TRUE]
            /\ \A i \in 1..(n - 1) :
                 boot.tried[i] = [target |-> PriorityTargets[i], ok |-> FALSE]
            /\ \A j \in (n + 1)..Len(PriorityTargets) :
                 \A i \in 1..n : boot.tried[i].target # PriorityTargets[j]

\* The walk of the list booted from MMC 0 after PXE and MMC 1 failed.
C4_Witness ==
    /\ boot.phase = "booted"
    /\ boot.booted = "mmc0"
    /\ Len(boot.tried) = 3

\* C5: any two completed expansions with the same generator gave the same
\* output sequence, whatever was expanded or booted in between.
C5_ExpansionIsIdempotent ==
    \A i, j \in 1..Len(log) : log[i].gen = log[j].gen => log[i].out = log[j].out

\* One generator was expanded, then another, then the first again, with a
\* boot attempt made as well.
C5_Witness ==
    /\ Len(log) = 3
    /\ log[1].gen = log[3].gen
    /\ log[2].gen # log[1].gen
    /\ nBoots >= 1

\* C6: every boot attempt, whatever the outcome of the attempts before it,
\* reads the same default boot command and the same five entries in the same
\* order.
C6_ConfigurationImmutableAtRuntime ==
    \A k \in 1..Len(boot.seen) :
        /\ boot.seen[k].command = [kind |-> "object", text |-> "run bootcmd_pxe", body |-> <<>>]
        /\ boot.seen[k].list = [kind |-> "function", text |-> "", body |-> PriorityList]

\* A second boot attempt made after one in which sources failed.
C6_Witness ==
    /\ Len(boot.seen) = 2
    /\ boot.seen[2].after = "failed"
    /\ boot.phase = "booted"

\* C7: neither symbol is ever #defined while it still holds a prior definition,
\* and after the header both hold this file's values.
C7_UndefinedBeforeRedefined ==
    /\ redefined = {}
    /\ pc = "done" =>
         /\ defs["CONFIG_BOOTCOMMAND"].text = "run bootcmd_pxe"
         /\ defs["BOOT_TARGET_DEVICES"].body = PriorityList

\* C8: every symbol other than CONFIG_BOOTCOMMAND and BOOT_TARGET_DEVICES has,
\* at each directive and after the last, the definition or the absence of one
\* that the #include left.
C8_OnlyTwoSymbolsChange ==
    \A s \in Symbols \ {"CONFIG_BOOTCOMMAND", "BOOT_TARGET_DEVICES"} :
        defs[s] = afterInclude[s]

\* The header is processed, one other symbol was defined by the vendor header,
\* another was not, and both of the fragment's symbols were changed.
C8_Witness ==
    /\ pc = "done"
    /\ afterInclude["VENDOR_SYM_A"] = ObjectMacro("vendor")
    /\ afterInclude["VENDOR_SYM_B"] = Undefined
    /\ defs["CONFIG_BOOTCOMMAND"] # afterInclude["CONFIG_BOOTCOMMAND"]
    /\ defs["BOOT_TARGET_DEVICES"] # afterInclude["BOOT_TARGET_DEVICES"]

\* C9: once the header is processed, the script the default command runs is the
\* per-entry script of a target the list generates: the first one, whose class
\* is PXE.
C9_DefaultCommandNamesListedTarget ==
    pc = "done" =>
        LET names == Expand("name", defs["BOOT_TARGET_DEVICES"].body)
            target == TargetOf(ScriptOf(defs["CONFIG_BOOTCOMMAND"].text))
        IN  /\ target # ""
            /\ \E i \in 1..Len(names) : names[i] = target
            /\ names[1] = target
            /\ defs["BOOT_TARGET_DEVICES"].body[1].class = "PXE"

\* The default command was run and its script found its target, which booted.
C9_Witness ==
    /\ boot.default
    /\ boot.phase = "booted"
    /\ boot.booted = "pxe"

\* C10: a boot attempt started by the default command attempts at most one
\* source, PXE; when PXE fails the attempt ends having tried none of MMC 1,
\* MMC 0, USB 0 and DHCP.
C10_DefaultCommandTriesOnlyPxe ==
    (boot.phase # "off" /\ boot.default) =>
        /\ Len(boot.tried) <= 1
        /\ \A i \in 1..Len(boot.tried) :
             /\ boot.tried[i].target = "pxe"
             /\ boot.tried[i].target \notin {"mmc1", "mmc0", "usb0", "dhcp"}
        /\ boot.phase = "failed" => boot.tried = << [target |-> "pxe", ok |-> FALSE] >>
        /\ (boot.tried # << >> /\ ~boot.tried[1].ok) => boot.queue = << >>

\* The default command's attempt ended after PXE alone failed.
C10_Witness ==
    /\ boot.default
    /\ boot.phase = "failed"
    /\ boot.tried = << [target |-> "pxe", ok |-> FALSE] >>

=============================================================================
